---- MODULE Spec2Model ----
(***************************************************************************)
(* Model of chainer/functions/tensor_network.py: the TensorNetwork layer.  *)
(*                                                                         *)
(* Arrays are modelled as numpy models them: an array object is a buffer   *)
(* together with a shape; a reshape is a view on the same buffer; the      *)
(* buffers live in `heap` as row-major flat sequences.  Floating point     *)
(* numbers are modelled by integers (exact arithmetic), so rounding is not *)
(* part of the model.                                                      *)
(***************************************************************************)
EXTENDS Integers, Sequences, FiniteSets, TLC

\* ------------------------------------------------------------------ bounds
D1 == 2
D2 == 2
Out == 2
MaxN == 2
MaxCalls == 2
NBuf == 13
GpuMaxItems == 8

BufIds == 1..NBuf

VARIABLES heap, W, gW, V1, gV1, V2, gV2, b, gb, x, gy, ret, calls, acc, gpu

vars == <<heap, W, gW, V1, gV1, V2, gV2, b, gb, x, gy, ret, calls, acc, gpu>>

\* ----------------------------------------------------------- array basics
None == [buf |-> 0, shape |-> <<>>]

Free == <<>>

RECURSIVE Prod(_)
Prod(s) == IF s = <<>> THEN 1 ELSE Head(s) * Prod(Tail(s))

Fill(n, v) == [i \in 1..n |-> v]

\* the value of an array object: its shape and the contents of its buffer
View(h, a) == [shape |-> a.shape, data |-> h[a.buf]]

Alloc(h) == CHOOSE i \in BufIds : h[i] = Free /\ \A j \in 1..(i - 1) : h[j] # Free

\* a new array object holding the value v on a buffer not in use
NewArray(h, v) == [buf |-> Alloc(h), shape |-> v.shape]

Store(h, v) == [h EXCEPT ![Alloc(h)] = v.data]

Pattern(p, i) ==
    IF p = 0 THEN (IF i = 0 THEN 1 ELSE 0) ELSE p * (i + 1) - 3 * (p - 1)

PatternVal(shape, p) ==
    [shape |-> shape, data |-> [i \in 1..Prod(shape) |-> Pattern(p, i - 1)]]

\* --------------------------------------------------------------- helpers
\* what an uninitialised buffer may hold: zeros, or something else
Garbage == {0, 1}

\* numpy.empty_like: the contents are whatever the allocator hands out; the
\* outcome g = 0 is a buffer that happens to be all zeros
_empty_like(a, g) ==
    [shape |-> a.shape, data |-> [i \in 1..Prod(a.shape) |-> g * i]]

\* x.reshape(x.size): a view on the same buffer
_as_vec(a) == [buf |-> a.buf, shape |-> <<Prod(a.shape)>>]

\* x.reshape(x.shape[0], x.size // x.shape[0]): a view on the same buffer
_as_mat(a) ==
    [buf |-> a.buf, shape |-> <<a.shape[1], Prod(a.shape) \div a.shape[1]>>]

\* -------------------------------------------------------------- __init__
\* numpy.random.normal(...): any tensor of the right shape
SampleW ==
    [shape |-> <<D1, D2, Out>>,
     data |-> [i \in 1..(D1 * D2 * Out) |-> ((i * i + 1) % 5) - 2]]

InitialW == PatternVal(<<D1, D2, Out>>, 1)

InitialBias ==
    <<[shape |-> <<D1, Out>>, data |-> [i \in 1..(D1 * Out) |-> i + 1]],
      [shape |-> <<D2, Out>>, data |-> [i \in 1..(D2 * Out) |-> 2 * i - 3]],
      [shape |-> <<Out>>, data |-> [i \in 1..Out |-> 3 - i]]>>

Zeros(shape) == [shape |-> shape, data |-> Fill(Prod(shape), 0)]

EmptyHeap == [i \in BufIds |-> Free]

\* ghost: what the backward calls since `since` should have added, by the
\* gradient rules; valid while every such call had a grad_y of shape (N, out)
ZeroAcc(since) ==
    [valid |-> TRUE, since |-> since,
     W |-> Fill(D1 * D2 * Out, 0), V1 |-> Fill(D1 * Out, 0),
     V2 |-> Fill(D2 * Out, 0), b |-> Fill(Out, 0)]

\* the device: the stage of the forward pass in flight, the work items of
\* the running kernel not yet executed, and the device arrays of the pass
GpuIdle == [pc |-> "idle", todo |-> {}, e1e2 |-> None, y |-> None]

NoRet == [op |-> "none", status |-> "ok", out |-> <<>>, args |-> <<>>]

Construct(nobias, useInitialW, useInitialBias, g) ==
    LET wv == IF useInitialW THEN InitialW ELSE SampleW
        h1 == Store(EmptyHeap, wv)
        aW == NewArray(EmptyHeap, wv)
        hasB == useInitialBias \/ ~nobias
        bv == IF useInitialBias THEN InitialBias
              ELSE <<Zeros(<<D1, Out>>), Zeros(<<D2, Out>>), Zeros(<<Out>>)>>
        aV1 == IF hasB THEN NewArray(h1, bv[1]) ELSE None
        h2 == IF hasB THEN Store(h1, bv[1]) ELSE h1
        aV2 == IF hasB THEN NewArray(h2, bv[2]) ELSE None
        h3 == IF hasB THEN Store(h2, bv[2]) ELSE h2
        ab == IF hasB THEN NewArray(h3, bv[3]) ELSE None
        h4 == IF hasB THEN Store(h3, bv[3]) ELSE h3
        gwv == _empty_like(aW, g)
        agW == NewArray(h4, gwv)
        h5 == Store(h4, gwv)
        \* if not nobias: gV1, gV2, gb = _empty_like(V1), (V2), (b)
        agV1 == IF ~nobias THEN NewArray(h5, _empty_like(aV1, g)) ELSE None
        h6 == IF ~nobias THEN Store(h5, _empty_like(aV1, g)) ELSE h5
        agV2 == IF ~nobias THEN NewArray(h6, _empty_like(aV2, g)) ELSE None
        h7 == IF ~nobias THEN Store(h6, _empty_like(aV2, g)) ELSE h6
        agb == IF ~nobias THEN NewArray(h7, _empty_like(ab, g)) ELSE None
        h8 == IF ~nobias THEN Store(h7, _empty_like(ab, g)) ELSE h7
    IN  /\ heap = h8
        /\ W = aW /\ V1 = aV1 /\ V2 = aV2 /\ b = ab
        /\ gW = agW /\ gV1 = agV1 /\ gV2 = agV2 /\ gb = agb

Init ==
    /\ \E nobias \in BOOLEAN, useInitialW \in BOOLEAN, useInitialBias \in BOOLEAN,
          g \in Garbage :
          Construct(nobias, useInitialW, useInitialBias, g)
    /\ x = <<None, None>>
    /\ gy = None
    /\ ret = NoRet
    /\ calls = 0
    /\ acc = ZeroAcc("__init__")
    /\ gpu = GpuIdle

\* --------------------------------------------------------- property names
parameter_names ==
    IF b = None THEN <<"W">> ELSE <<"W", "V1", "V2", "b">>

gradient_names ==
    IF gb = None THEN <<"gW">> ELSE <<"gW", "gV1", "gV2", "gb">>

\* ------------------------------------------------------- numpy operations
RECURSIVE SumTo(_, _)
\* f[1] + ... + f[n]
SumTo(f, n) == IF n = 0 THEN 0 ELSE f[n] + SumTo(f, n - 1)

RECURSIVE Unflat(_, _)
\* the multi-index of the row-major offset q
Unflat(shape, q) ==
    IF shape = <<>> THEN <<>>
    ELSE <<q \div Prod(Tail(shape))>> \o Unflat(Tail(shape), q % Prod(Tail(shape)))

\* numpy stretches a dimension of size 1 to the size it meets (broadcasting)
BOk(m, n) == m = n \/ m = 1 \/ n = 1

BDim(m, n) == IF m = 1 THEN n ELSE m

\* element [i] of a vector, [i, j] of a matrix, [i, j, k] of a 3-tensor,
\* (0-based) a dimension of size 1 being stretched
A1(v, i) == v.data[(IF v.shape[1] = 1 THEN 0 ELSE i) + 1]

A2(v, i, j) ==
    v.data[(IF v.shape[1] = 1 THEN 0 ELSE i) * v.shape[2]
           + (IF v.shape[2] = 1 THEN 0 ELSE j) + 1]

A3(v, i, j, k) ==
    v.data[((IF v.shape[1] = 1 THEN 0 ELSE i) * v.shape[2]
            + (IF v.shape[2] = 1 THEN 0 ELSE j)) * v.shape[3]
           + (IF v.shape[3] = 1 THEN 0 ELSE k) + 1]

\* numpy.einsum raises unless the ranks fit the subscripts and, per label,
\* the sizes are equal or 1
\* numpy.einsum('ij,ik,jkl->il', e1, e2, w)
einsum_ij_ik_jkl_il_ok(e1, e2, w) ==
    /\ Len(e1.shape) = 2 /\ Len(e2.shape) = 2 /\ Len(w.shape) = 3
    /\ BOk(e1.shape[1], e2.shape[1])
    /\ BOk(e1.shape[2], w.shape[1])
    /\ BOk(e2.shape[2], w.shape[2])

\* faulty variant: the contraction with the roles of j and k swapped in W
einsum_ij_ik_jkl_il_swapped(e1, e2, w) ==
    LET I == BDim(e1.shape[1], e2.shape[1])
        J == BDim(e1.shape[2], w.shape[1])
        K == BDim(e2.shape[2], w.shape[2])
        L == w.shape[3]
    IN  [shape |-> <<I, L>>,
         data |-> [q \in 1..(I * L) |->
                     LET i == (q - 1) \div L
                         l == (q - 1) % L
                     IN  SumTo([t \in 1..(J * K) |->
                                  A2(e1, i, (t - 1) \div K) * A2(e2, i, (t - 1) % K)
                                  * A3(w, (t - 1) % K, (t - 1) \div K, l)], J * K)]]

einsum_ij_ik_jkl_il(e1, e2, w) ==
    LET I == BDim(e1.shape[1], e2.shape[1])
        J == BDim(e1.shape[2], w.shape[1])
        K == BDim(e2.shape[2], w.shape[2])
        L == w.shape[3]
    IN  [shape |-> <<I, L>>,
         data |-> [q \in 1..(I * L) |->
                     LET i == (q - 1) \div L
                         l == (q - 1) % L
                     IN  SumTo([t \in 1..(J * K) |->
                                  A2(e1, i, (t - 1) \div K) * A2(e2, i, (t - 1) % K)
                                  * A3(w, (t - 1) \div K, (t - 1) % K, l)], J * K)]]

\* numpy.einsum('ij,ik,il->jkl', e1, e2, g)
einsum_ij_ik_il_jkl_ok(e1, e2, g) ==
    /\ Len(e1.shape) = 2 /\ Len(e2.shape) = 2 /\ Len(g.shape) = 2
    /\ BOk(e1.shape[1], e2.shape[1])
    /\ BOk(BDim(e1.shape[1], e2.shape[1]), g.shape[1])

einsum_ij_ik_il_jkl(e1, e2, g) ==
    LET I == BDim(BDim(e1.shape[1], e2.shape[1]), g.shape[1])
        J == e1.shape[2]
        K == e2.shape[2]
        L == g.shape[2]
    IN  [shape |-> <<J, K, L>>,
         data |-> [q \in 1..(J * K * L) |->
                     LET j == (q - 1) \div (K * L)
                         k == ((q - 1) \div L) % K
                         l == (q - 1) % L
                     IN  SumTo([t \in 1..I |->
                                  A2(e1, t - 1, j) * A2(e2, t - 1, k) * A2(g, t - 1, l)], I)]]

\* numpy.einsum('ik,jkl,il->ij', e, w, g) and, the roles of j and k swapped
\* in w, numpy.einsum('ij,jkl,il->ik', e, w, g)
einsum_e_w_g_ok(e, w, g, first) ==
    /\ Len(e.shape) = 2 /\ Len(w.shape) = 3 /\ Len(g.shape) = 2
    /\ BOk(e.shape[1], g.shape[1])
    /\ BOk(e.shape[2], IF first THEN w.shape[1] ELSE w.shape[2])
    /\ BOk(w.shape[3], g.shape[2])

\* faulty variant: grad_e1 contracted against the wrong axis of W
einsum_ik_jkl_il_ij_swapped(e2, w, g) ==
    LET I == BDim(e2.shape[1], g.shape[1])
        K == BDim(e2.shape[2], w.shape[2])
        J == w.shape[1]
        L == BDim(w.shape[3], g.shape[2])
    IN  [shape |-> <<I, J>>,
         data |-> [q \in 1..(I * J) |->
                     LET i == (q - 1) \div J
                         j == (q - 1) % J
                     IN  SumTo([t \in 1..(K * L) |->
                                  A2(e2, i, (t - 1) \div L)
                                  * A3(w, (t - 1) \div L, j, (t - 1) % L)
                                  * A2(g, i, (t - 1) % L)], K * L)]]

einsum_ik_jkl_il_ij(e2, w, g) ==
    LET I == BDim(e2.shape[1], g.shape[1])
        K == BDim(e2.shape[2], w.shape[2])
        J == w.shape[1]
        L == BDim(w.shape[3], g.shape[2])
    IN  [shape |-> <<I, J>>,
         data |-> [q \in 1..(I * J) |->
                     LET i == (q - 1) \div J
                         j == (q - 1) % J
                     IN  SumTo([t \in 1..(K * L) |->
                                  A2(e2, i, (t - 1) \div L)
                                  * A3(w, j, (t - 1) \div L, (t - 1) % L)
                                  * A2(g, i, (t - 1) % L)], K * L)]]

einsum_ij_jkl_il_ik(e1, w, g) ==
    LET I == BDim(e1.shape[1], g.shape[1])
        J == BDim(e1.shape[2], w.shape[1])
        K == w.shape[2]
        L == BDim(w.shape[3], g.shape[2])
    IN  [shape |-> <<I, K>>,
         data |-> [q \in 1..(I * K) |->
                     LET i == (q - 1) \div K
                         k == (q - 1) % K
                     IN  SumTo([t \in 1..(J * L) |->
                                  A2(e1, i, (t - 1) \div L)
                                  * A3(w, (t - 1) \div L, k, (t - 1) % L)
                                  * A2(g, i, (t - 1) % L)], J * L)]]

\* a.dot(b) for matrices raises unless the inner sizes agree
dot_ok(a, c) == a.shape[2] = c.shape[1]

dot(a, c) ==
    [shape |-> <<a.shape[1], c.shape[2]>>,
     data |-> [q \in 1..(a.shape[1] * c.shape[2]) |->
                 LET i == (q - 1) \div c.shape[2]
                     l == (q - 1) % c.shape[2]
                 IN  SumTo([m \in 1..a.shape[2] |->
                        a.data[i * a.shape[2] + m] * c.data[(m - 1) * c.shape[2] + l + 1]],
                           a.shape[2])]]

\* a.T of a matrix
T(a) ==
    [shape |-> <<a.shape[2], a.shape[1]>>,
     data |-> [q \in 1..Prod(a.shape) |->
                 LET r == (q - 1) \div a.shape[1]
                     c == (q - 1) % a.shape[1]
                 IN  a.data[c * a.shape[2] + r + 1]]]

\* a.sum(0) of a matrix
sum0(a) ==
    [shape |-> <<a.shape[2]>>,
     data |-> [q \in 1..a.shape[2] |->
                 SumTo([n \in 1..a.shape[1] |-> a.data[(n - 1) * a.shape[2] + q]],
                       a.shape[1])]]

\* a += v in place raises unless v broadcasts to the shape of a
iadd_ok(a, v) ==
    /\ Len(v.shape) <= Len(a.shape)
    /\ \A p \in 1..Len(v.shape) :
          LET t == v.shape[p]
          IN  t = 1 \/ t = a.shape[p + Len(a.shape) - Len(v.shape)]

\* faulty variant: a = v in place of a += v: the old contents are overwritten
iadd_overwrite(a, v) ==
    LET r == Len(a.shape) - Len(v.shape)
    IN  [q \in 1..Prod(a.shape) |->
            LET idx == Unflat(a.shape, q - 1)
                vi == [p \in 1..Len(v.shape) |-> idx[p + r]]
            IN  IF Len(v.shape) = 1 THEN A1(v, vi[1])
                ELSE IF Len(v.shape) = 2 THEN A2(v, vi[1], vi[2])
                ELSE A3(v, vi[1], vi[2], vi[3])]

\* the contents of a after a += v
iadd(a, v) ==
    LET r == Len(a.shape) - Len(v.shape)
    IN  [q \in 1..Prod(a.shape) |->
            LET idx == Unflat(a.shape, q - 1)
                vi == [p \in 1..Len(v.shape) |-> idx[p + r]]
            IN  a.data[q] + (IF Len(v.shape) = 1 THEN A1(v, vi[1])
                             ELSE IF Len(v.shape) = 2 THEN A2(v, vi[1], vi[2])
                             ELSE A3(v, vi[1], vi[2], vi[3]))]

\* ---------------------------------------------------------------- calls
in_shape == <<D1, D2>>

\* the buffers the layer holds
LayerBufs == {a.buf : a \in {W, gW, V1, gV1, V2, gV2, b, gb}} \ {0}

\* the heap once the caller has dropped its previous arrays and results
Dropped(h) == [i \in BufIds |-> IF i \in LayerBufs THEN h[i] ELSE Free]

\* the heap once the temporaries of a call are collected
Collect(h, live) ==
    [i \in BufIds |-> IF i \in LayerBufs \/ i \in {a.buf : a \in live} THEN h[i] ELSE Free]

InPlaceAdd(h, a, v) == [h EXCEPT ![a.buf] = iadd(View(h, a), v)]

Raise(h) == [heap |-> h, status |-> "error", out |-> <<>>]

Return(h, out) == [heap |-> h, status |-> "ok", out |-> out]

check_type_forward(in_types) ==
    /\ Len(in_types) = 2
    /\ Len(in_types[1]) >= 2
    /\ Len(in_types[2]) >= 2
    /\ in_types[1][1] = in_types[2][1]
    /\ Prod(Tail(in_types[1])) = in_shape[1]
    /\ Prod(Tail(in_types[2])) = in_shape[2]

\* faulty variant: the bias terms accumulated into self.b instead of into y
forward_cpu_into_b(h, xs) ==
    LET e1 == _as_mat(xs[1])
        e2 == _as_mat(xs[2])
        yv == einsum_ij_ik_jkl_il(View(h, e1), View(h, e2), View(h, W))
        y == NewArray(h, yv)
        h1 == Store(h, yv)
    IN  IF b = None THEN Return(h1, <<y>>)
        ELSE Return(InPlaceAdd(h1, b, sum0(dot(View(h1, e1), View(h1, V1)))), <<y>>)

forward_cpu(h, xs) ==
    LET e1 == _as_mat(xs[1])
        e2 == _as_mat(xs[2])
    IN  IF ~einsum_ij_ik_jkl_il_ok(View(h, e1), View(h, e2), View(h, W)) THEN Raise(h)
        ELSE
        LET yv == einsum_ij_ik_jkl_il(View(h, e1), View(h, e2), View(h, W))
            y == NewArray(h, yv)
            h1 == Store(h, yv)
        IN  IF b = None THEN Return(h1, <<y>>)
            ELSE IF ~dot_ok(View(h1, e1), View(h1, V1)) THEN Raise(h1)
            ELSE
            LET t1 == dot(View(h1, e1), View(h1, V1))
            IN  IF ~iadd_ok(View(h1, y), t1) THEN Raise(h1)
                ELSE
                LET h2 == InPlaceAdd(h1, y, t1)
                IN  IF ~dot_ok(View(h2, e2), View(h2, V2)) THEN Raise(h2)
                    ELSE
                    LET t2 == dot(View(h2, e2), View(h2, V2))
                    IN  IF ~iadd_ok(View(h2, y), t2) THEN Raise(h2)
                        ELSE
                        LET h3 == InPlaceAdd(h2, y, t2)
                        IN  IF ~iadd_ok(View(h3, y), View(h3, b)) THEN Raise(h3)
                            ELSE Return(InPlaceAdd(h3, y, View(h3, b)), <<y>>)

\* ------------------------------------------------------ device kernels
\* work item i of 'row_wise_outer_product': the value it writes to y[i]
row_wise_outer_product(i, e1, e2, e1c, e2c) ==
    LET I == (i \div e1c) \div e2c
        J == (i - I * e1c * e2c) \div e2c
        K == i % e2c
    IN  e1[I * e1c + J + 1] * e2[I * e2c + K + 1]

\* faulty variant: a work item that reads the element of another work item
linear_bias_shared(i, y, bias, n_channel) ==
    y[(i % n_channel) + 1] + bias[(i % n_channel) + 1]

\* work item i of 'linear_bias': the value it leaves in y[i]
linear_bias(i, y, bias, n_channel) == y[i + 1] + bias[(i % n_channel) + 1]

\* cuda.culinalg.dot / add_dot raise unless the inner sizes agree
culinalg_dot_ok(a, c) == a.shape[2] = c.shape[1]

reshape(a, shape) == [buf |-> a.buf, shape |-> shape]

\* cuda.empty(size): an uninitialised device buffer
cuda_empty(shape, g) == [shape |-> shape, data |-> Fill(Prod(shape), g)]

forward_gpu(h, xs, g) ==
    LET e1 == _as_vec(xs[1])
        e2 == _as_vec(xs[2])
        e1c == xs[1].shape[2]
        e2c == xs[2].shape[2]
        n == xs[1].shape[1] * e1c * e2c
        e1e2 == NewArray(h, cuda_empty(<<n>>, g))
        h1 == [Store(h, cuda_empty(<<n>>, g)) EXCEPT ![e1e2.buf] =
                  [i \in 1..n |-> row_wise_outer_product(i - 1, h[e1.buf], h[e2.buf], e1c, e2c)]]
        e1e2m == reshape(e1e2, <<xs[1].shape[1], e1c * e2c>>)
        W_mat == reshape(W, <<W.shape[1] * W.shape[2], W.shape[3]>>)
        yv == cuda_empty(<<xs[1].shape[1], W.shape[3]>>, g)
        y == NewArray(h1, yv)
        h2 == Store(h1, yv)
    IN  IF ~culinalg_dot_ok(View(h2, e1e2m), View(h2, W_mat)) THEN Raise(h2)
        ELSE
        LET h3 == [h2 EXCEPT ![y.buf] = dot(View(h2, e1e2m), View(h2, W_mat)).data]
        IN  IF b = None THEN Return(h3, <<y>>)
            ELSE
            LET m1 == _as_mat(xs[1])
                m2 == _as_mat(xs[2])
            IN  IF ~culinalg_dot_ok(View(h3, m1), View(h3, V1)) THEN Raise(h3)
                ELSE
                LET h4 == InPlaceAdd(h3, y, dot(View(h3, m1), View(h3, V1)))
                IN  IF ~culinalg_dot_ok(View(h4, m2), View(h4, V2)) THEN Raise(h4)
                    ELSE
                    LET h5 == InPlaceAdd(h4, y, dot(View(h4, m2), View(h4, V2)))
                    IN  Return([h5 EXCEPT ![y.buf] =
                                   [i \in 1..Prod(y.shape) |->
                                       linear_bias(i - 1, h5[y.buf], h5[b.buf],
                                                   Prod(b.shape))]],
                               <<y>>)

\* the shapes a caller may give an input of n samples of d values each
Shapes(n, d) == {<<n, d>>} \cup {<<n, a, d \div a>> : a \in {c \in 1..d : d % c = 0}}

\* the patterns of one call: those of x[0], x[1] and gy[0]; the first is
\* e1 = [1,0,..], e2 = [1,0,..], grad_y = [1,0,..], the second is dense
CallPatterns == {<<0, 0, 0>>, <<1, 2, 1>>}

\* argument lists of forward: accepted ones (at most one input of rank 3),
\* and some the type check rejects
FwdShapes ==
    UNION {({<<n, D1>>} \X Shapes(n, D2)) \cup (Shapes(n, D1) \X {<<n, D2>>})
              : n \in 1..MaxN}

FwdArgs ==
    {[s0 |-> ss[1], s1 |-> ss[2], p0 |-> pp[1], p1 |-> pp[2]] :
        ss \in FwdShapes, pp \in CallPatterns}
    \cup
    {[s0 |-> s0, s1 |-> <<1, D2>>, p0 |-> 1, p1 |-> 2] :
        s0 \in {<<1, D1 + 1>>, <<D1>>, <<MaxN, D1>>}}

\* the caller builds the two input arrays on fresh buffers
CallerInputs(h, a) ==
    LET v0 == PatternVal(a.s0, a.p0)
        v1 == PatternVal(a.s1, a.p1)
        x0 == NewArray(h, v0)
        h1 == Store(h, v0)
    IN  [heap |-> Store(h1, v1), x |-> <<x0, NewArray(h1, v1)>>]

\* Function.__call__ on the CPU: the type check, then forward_cpu
Forward(name, c, r) ==
    /\ x' = c.x
    /\ gy' = None
    /\ ret' = [op |-> name, status |-> r.status, out |-> r.out,
               args |-> <<View(c.heap, c.x[1]), View(c.heap, c.x[2])>>]
    /\ heap' = Collect(r.heap, {c.x[1], c.x[2]} \cup {r.out[i] : i \in 1..Len(r.out)})
    /\ UNCHANGED <<W, gW, V1, gV1, V2, gV2, b, gb, calls, acc, gpu>>

TypeError(h) == [heap |-> h, status |-> "type_error", out |-> <<>>]

ForwardCpu ==
    \E a \in FwdArgs :
        LET c == CallerInputs(Dropped(heap), a)
        IN  Forward("forward_cpu", c,
                    IF check_type_forward(<<a.s0, a.s1>>)
                    THEN forward_cpu(c.heap, c.x) ELSE TypeError(c.heap))

ForwardGpu ==
    \E a \in FwdArgs, g \in Garbage :
        LET c == CallerInputs(Dropped(heap), a)
        IN  Forward("forward_gpu", c,
                    IF check_type_forward(<<a.s0, a.s1>>)
                    THEN forward_gpu(c.heap, c.x, g) ELSE TypeError(c.heap))

\* `a += v` on an attribute that may be None: raises on None (TypeError) and
\* when v does not broadcast to a
iadd_attr_ok(h, a, v) == a # None /\ iadd_ok(View(h, a), v)

backward_cpu(h, xs, g) ==
    LET e1 == _as_mat(xs[1])
        e2 == _as_mat(xs[2])
        ge(hh) ==
            \* lines 158-163: the input gradients
            IF ~einsum_e_w_g_ok(View(hh, e2), View(hh, W), View(hh, g), FALSE)
            THEN Raise(hh)
            ELSE
            LET v1 == einsum_ik_jkl_il_ij(View(hh, e2), View(hh, W), View(hh, g))
                ge1 == NewArray(hh, v1)
                h1 == Store(hh, v1)
            IN  IF ~einsum_e_w_g_ok(View(h1, e1), View(h1, W), View(h1, g), TRUE)
                THEN Raise(h1)
                ELSE
                LET v2 == einsum_ij_jkl_il_ik(View(h1, e1), View(h1, W), View(h1, g))
                    ge2 == NewArray(h1, v2)
                    h2 == Store(h1, v2)
                IN  IF b = None THEN Return(h2, <<ge1, ge2>>)
                    ELSE IF ~dot_ok(View(h2, g), T(View(h2, V1))) THEN Raise(h2)
                    ELSE
                    LET t1 == dot(View(h2, g), T(View(h2, V1)))
                    IN  IF ~iadd_ok(View(h2, ge1), t1) THEN Raise(h2)
                        ELSE
                        LET h3 == InPlaceAdd(h2, ge1, t1)
                        IN  IF ~dot_ok(View(h3, g), T(View(h3, V2))) THEN Raise(h3)
                            ELSE
                            LET t2 == dot(View(h3, g), T(View(h3, V2)))
                            IN  IF ~iadd_ok(View(h3, ge2), t2) THEN Raise(h3)
                                ELSE Return(InPlaceAdd(h3, ge2, t2), <<ge1, ge2>>)
    IN  \* lines 152-156: the parameter gradients
        IF ~einsum_ij_ik_il_jkl_ok(View(h, e1), View(h, e2), View(h, g)) THEN Raise(h)
        ELSE
        LET tw == einsum_ij_ik_il_jkl(View(h, e1), View(h, e2), View(h, g))
        IN  IF ~iadd_attr_ok(h, gW, tw) THEN Raise(h)
            ELSE
            LET h1 == InPlaceAdd(h, gW, tw)
            IN  IF b = None THEN ge(h1)
                ELSE IF ~dot_ok(T(View(h1, e1)), View(h1, g)) THEN Raise(h1)
                ELSE IF ~iadd_attr_ok(h1, gV1, dot(T(View(h1, e1)), View(h1, g)))
                THEN Raise(h1)
                ELSE
                LET h2 == InPlaceAdd(h1, gV1, dot(T(View(h1, e1)), View(h1, g)))
                IN  IF ~dot_ok(T(View(h2, e2)), View(h2, g)) THEN Raise(h2)
                    ELSE IF ~iadd_attr_ok(h2, gV2, dot(T(View(h2, e2)), View(h2, g)))
                    THEN Raise(h2)
                    ELSE
                    LET h3 == InPlaceAdd(h2, gV2, dot(T(View(h2, e2)), View(h2, g)))
                    IN  IF ~iadd_attr_ok(h3, gb, sum0(View(h3, g))) THEN Raise(h3)
                        ELSE ge(InPlaceAdd(h3, gb, sum0(View(h3, g))))

\* the shapes grad_y is given for a batch of n: the right one and wrong ones
GyShapes(n) == {<<n, Out>>, <<n, 1>>, <<1, Out>>, <<n, Out + 1>>, <<n + 1, Out>>}

\* argument lists of backward: inputs the type check of forward accepted,
\* with a grad_y of the right shape or (dense, largest batch) of a wrong one
BwdArgs ==
    {[s0 |-> IF pp[1] = 1 THEN <<n, 1, D1>> ELSE <<n, D1>>,
      s1 |-> IF pp[1] = 1 THEN <<n, D2, 1>> ELSE <<n, D2>>,
      p0 |-> pp[1], p1 |-> pp[2], sg |-> sg, pg |-> pp[3]] :
        n \in 1..MaxN, pp \in CallPatterns,
        sg \in GyShapes(MaxN) \cup {<<m, Out>> : m \in 1..MaxN}}

\* ghost: the contributions the gradient rules ascribe to one call
Contribution(a) ==
    LET n == a.s0[1]
        e1(i, j) == Pattern(a.p0, i * D1 + j)
        e2(i, k) == Pattern(a.p1, i * D2 + k)
        g(i, l) == Pattern(a.pg, i * Out + l)
    IN  [W |-> [q \in 1..(D1 * D2 * Out) |->
                  SumTo([i \in 1..n |->
                           e1(i - 1, (q - 1) \div (D2 * Out))
                           * e2(i - 1, ((q - 1) \div Out) % D2)
                           * g(i - 1, (q - 1) % Out)], n)],
         V1 |-> [q \in 1..(D1 * Out) |->
                  SumTo([i \in 1..n |->
                           e1(i - 1, (q - 1) \div Out) * g(i - 1, (q - 1) % Out)], n)],
         V2 |-> [q \in 1..(D2 * Out) |->
                  SumTo([i \in 1..n |->
                           e2(i - 1, (q - 1) \div Out) * g(i - 1, (q - 1) % Out)], n)],
         b |-> [q \in 1..Out |-> SumTo([i \in 1..n |-> g(i - 1, q - 1)], n)]]

AddSeq(u, v) == [q \in 1..Len(u) |-> u[q] + v[q]]

BackwardCpu ==
    /\ calls < MaxCalls
    /\ \E a \in BwdArgs :
        /\ a.sg = <<a.s0[1], Out>> \/ (a.s0[1] = MaxN /\ a.p0 = 1)
        /\ LET c == CallerInputs(Dropped(heap), a)
               gv == PatternVal(a.sg, a.pg)
               g == NewArray(c.heap, gv)
               r == backward_cpu(Store(c.heap, gv), c.x, g)
               k == Contribution(a)
           IN  /\ x' = c.x
               /\ gy' = g
               /\ ret' = [op |-> "backward_cpu", status |-> r.status, out |-> r.out,
                          args |-> <<View(c.heap, c.x[1]), View(c.heap, c.x[2]), gv>>]
               /\ heap' = Collect(r.heap, {c.x[1], c.x[2], g}
                                          \cup {r.out[i] : i \in 1..Len(r.out)})
               /\ acc' = IF a.sg = <<a.s0[1], Out>>
                         THEN [acc EXCEPT !.W = AddSeq(@, k.W), !.V1 = AddSeq(@, k.V1),
                                          !.V2 = AddSeq(@, k.V2), !.b = AddSeq(@, k.b)]
                         ELSE [acc EXCEPT !.valid = FALSE]
    /\ calls' = calls + 1
    /\ UNCHANGED <<W, gW, V1, gV1, V2, gV2, b, gb, gpu>>

zero_grads_heap(h) ==
    LET h1 == [h EXCEPT ![gW.buf] = Fill(Prod(gW.shape), 0)]
    IN  IF gb # None
        THEN [h1 EXCEPT ![gV1.buf] = Fill(Prod(gV1.shape), 0),
                        ![gV2.buf] = Fill(Prod(gV2.shape), 0),
                        ![gb.buf] = Fill(Prod(gb.shape), 0)]
        ELSE h1

zero_grads ==
    /\ heap' = zero_grads_heap(heap)
    /\ ret' = [op |-> "zero_grads", status |-> "ok", out |-> <<>>, args |-> <<>>]
    /\ calls' = 0
    /\ acc' = ZeroAcc("zero_grads")
    /\ UNCHANGED <<W, gW, V1, gV1, V2, gV2, b, gb, x, gy, gpu>>

\* ----------------------------------------- forward_gpu, step by step
\* The same pass with each kernel's work items executed one at a time in any
\* order; the library calls (dot, add_dot) are single steps.
Params == <<W, gW, V1, gV1, V2, gV2, b, gb>>

GpuArgs ==
    {a \in FwdArgs :
        /\ check_type_forward(<<a.s0, a.s1>>)
        /\ a.s0[1] * a.s0[2] * a.s1[2] <= GpuMaxItems}

\* lines 114-127: the kernel 'row_wise_outer_product' is launched on e1e2
GpuLaunch ==
    /\ gpu.pc = "idle"
    /\ \E a \in GpuArgs, g \in Garbage :
        LET c == CallerInputs(Dropped(heap), a)
            n == a.s0[1] * a.s0[2] * a.s1[2]
            ev == cuda_empty(<<n>>, g)
        IN  /\ x' = c.x
            /\ heap' = Store(c.heap, ev)
            /\ gpu' = [pc |-> "outer", todo |-> 0..(n - 1),
                       e1e2 |-> NewArray(c.heap, ev), y |-> None]
            /\ ret' = [op |-> "forward_gpu", status |-> "running", out |-> <<>>,
                       args |-> <<View(c.heap, c.x[1]), View(c.heap, c.x[2])>>]
    /\ gy' = None
    /\ UNCHANGED <<Params, calls, acc>>

\* one work item of 'row_wise_outer_product'
OuterItem ==
    /\ gpu.pc = "outer"
    /\ \E i \in gpu.todo :
        /\ heap' = [heap EXCEPT ![gpu.e1e2.buf][i + 1] =
                       row_wise_outer_product(i, heap[x[1].buf], heap[x[2].buf],
                                              x[1].shape[2], x[2].shape[2])]
        /\ gpu' = [gpu EXCEPT !.todo = @ \ {i}]
    /\ UNCHANGED <<Params, x, gy, ret, calls, acc>>

GpuFinish(h, status, out) ==
    /\ heap' = Collect(h, {x[1], x[2]} \cup {out[i] : i \in 1..Len(out)})
    /\ gpu' = GpuIdle
    /\ ret' = [ret EXCEPT !.status = status, !.out = out]

\* lines 129-134: once the kernel is through, e1e2 is reshaped and
\* multiplied with W_mat into y
GpuMatMul ==
    /\ gpu.pc = "outer" /\ gpu.todo = {}
    /\ \E g \in Garbage :
        LET e1e2m == reshape(gpu.e1e2, <<x[1].shape[1], x[1].shape[2] * x[2].shape[2]>>)
            W_mat == reshape(W, <<W.shape[1] * W.shape[2], W.shape[3]>>)
            yv == cuda_empty(<<x[1].shape[1], W.shape[3]>>, g)
            y == NewArray(heap, yv)
            h1 == Store(heap, yv)
        IN  IF ~culinalg_dot_ok(View(h1, e1e2m), View(h1, W_mat))
            THEN GpuFinish(h1, "error", <<>>)
            ELSE LET h2 == [h1 EXCEPT ![y.buf] =
                               dot(View(h1, e1e2m), View(h1, W_mat)).data]
                 IN  IF b = None THEN GpuFinish(h2, "ok", <<y>>)
                     ELSE /\ heap' = h2
                          /\ gpu' = [gpu EXCEPT !.pc = "add_dot", !.y = y]
                          /\ ret' = ret
    /\ UNCHANGED <<Params, x, gy, calls, acc>>

\* lines 137-145: the two add_dot calls, then 'linear_bias' is launched on y
GpuAddDot ==
    /\ gpu.pc = "add_dot"
    /\ LET m1 == _as_mat(x[1])
           m2 == _as_mat(x[2])
       IN  IF ~culinalg_dot_ok(View(heap, m1), View(heap, V1))
              \/ ~culinalg_dot_ok(View(heap, m2), View(heap, V2))
           THEN GpuFinish(heap, "error", <<>>)
           ELSE LET h1 == InPlaceAdd(heap, gpu.y, dot(View(heap, m1), View(heap, V1)))
                IN  /\ heap' = InPlaceAdd(h1, gpu.y, dot(View(h1, m2), View(h1, V2)))
                    /\ gpu' = [gpu EXCEPT !.pc = "bias",
                                          !.todo = 0..(Prod(gpu.y.shape) - 1)]
                    /\ ret' = ret
    /\ UNCHANGED <<Params, x, gy, calls, acc>>

\* one work item of 'linear_bias'
BiasItem ==
    /\ gpu.pc = "bias"
    /\ \E i \in gpu.todo :
        /\ heap' = [heap EXCEPT ![gpu.y.buf][i + 1] =
                       linear_bias(i, heap[gpu.y.buf], heap[b.buf], Prod(b.shape))]
        /\ gpu' = [gpu EXCEPT !.todo = @ \ {i}]
    /\ UNCHANGED <<Params, x, gy, ret, calls, acc>>

\* line 146: return y,
GpuReturn ==
    /\ gpu.pc = "bias" /\ gpu.todo = {}
    /\ GpuFinish(heap, "ok", <<gpu.y>>)
    /\ UNCHANGED <<Params, x, gy, calls, acc>>

NextGpu == GpuLaunch \/ OuterItem \/ GpuMatMul \/ GpuAddDot \/ BiasItem \/ GpuReturn

SpecGpu == Init /\ [][NextGpu]_vars

Next == ForwardCpu \/ ForwardGpu

Spec == Init /\ [][Next]_vars

NextBwd == BackwardCpu \/ zero_grads

SpecBwd == Init /\ [][NextBwd]_vars

\* ================================================================ claims
\* the quantities the specification's formulas are written in: e1[n,j] and
\* e2[n,k] are the inputs flattened per sample, all indices from 0
N == x[1].shape[1]

e1At(n, j) == heap[x[1].buf][n * D1 + j + 1]

e2At(n, k) == heap[x[2].buf][n * D2 + k + 1]

gyAt(n, l) == heap[gy.buf][n * Out + l + 1]

WAt(j, k, l) == heap[W.buf][(j * D2 + k) * Out + l + 1]

V1At(j, l) == heap[V1.buf][j * Out + l + 1]

V2At(k, l) == heap[V2.buf][k * Out + l + 1]

Accepted == check_type_forward(<<x[1].shape, x[2].shape>>)

ExpectedY(n, l) ==
    SumTo([j \in 1..D1 |->
             SumTo([k \in 1..D2 |-> e1At(n, j - 1) * e2At(n, k - 1) * WAt(j - 1, k - 1, l)],
                   D2)], D1)
    + (IF b = None THEN 0
       ELSE SumTo([j \in 1..D1 |-> e1At(n, j - 1) * V1At(j - 1, l)], D1)
            + SumTo([k \in 1..D2 |-> e2At(n, k - 1) * V2At(k - 1, l)], D2)
            + heap[b.buf][l + 1])

\* C1: on the CPU path, forward of an accepted input pair returns y of shape
\* (N, out) with y[n,l] = sum_j sum_k e1[n,j]*e2[n,k]*W[j,k,l], plus
\* sum_j e1[n,j]*V1[j,l] + sum_k e2[n,k]*V2[k,l] + b[l] when the bias terms exist
C1_ForwardCpuFormula ==
    (ret.op = "forward_cpu" /\ Accepted) =>
        /\ ret.status = "ok"
        /\ ret.out[1].shape = <<N, Out>>
        /\ \A n \in 0..(N - 1), l \in 0..(Out - 1) :
              heap[ret.out[1].buf][n * Out + l + 1] = ExpectedY(n, l)

C1_Witness ==
    /\ ret.op = "forward_cpu" /\ ret.status = "ok"
    /\ b # None /\ N > 1 /\ Len(x[2].shape) = 3
    /\ heap[ret.out[1].buf][Out + 1] # 0
    /\ heap[x[1].buf][2] # 0 /\ heap[x[2].buf][2] # heap[x[1].buf][2]

\* C2: for an accepted input pair, inputs of rank greater than 2 included,
\* the device path returns the same output as the CPU path
C2_GpuSameAsCpu ==
    (ret.op = "forward_gpu" /\ Accepted) =>
        LET r == forward_cpu(heap, x)
        IN  /\ ret.status = r.status
            /\ r.status = "ok" =>
                  View(heap, ret.out[1]) = View(r.heap, r.out[1])

\* C6: V1, V2, b are present or absent together, the gradient buffers exist
\* exactly when their parameters do, and parameter_names and gradient_names
\* name the same number of buffers
C6_BuffersMatchParameters ==
    /\ (V1 # None) = (b # None) /\ (V2 # None) = (b # None)
    /\ (gV1 # None) = (V1 # None) /\ (gV2 # None) = (V2 # None)
    /\ (gb # None) = (b # None) /\ gW # None
    /\ (parameter_names = <<"W", "V1", "V2", "b">>)
          = (gradient_names = <<"gW", "gV1", "gV2", "gb">>)
    /\ (parameter_names = <<"W">>) = (gradient_names = <<"gW">>)

IsForward(r) == r.op \in {"forward_cpu", "forward_gpu"}

\* C9: a forward call, on either path, leaves the parameters, the gradient
\* accumulators and the caller's input arrays as they were, and what it
\* returns is an array on a buffer none of them uses
C9_ForwardNoSideEffects ==
    [][IsForward(ret') =>
          /\ <<W, gW, V1, gV1, V2, gV2, b, gb>>' = <<W, gW, V1, gV1, V2, gV2, b, gb>>
          /\ \A i \in LayerBufs : heap'[i] = heap[i]
          /\ \A i \in 1..2 : View(heap', x'[i]) = ret'.args[i]
          /\ ret'.status = "ok" =>
                /\ Len(ret'.out) = 1
                /\ ret'.out[1].buf \notin LayerBufs \cup {x'[1].buf, x'[2].buf}
                /\ heap'[ret'.out[1].buf] # Free]_vars

C9_Witness ==
    /\ ret.op = "forward_gpu" /\ ret.status = "ok"
    /\ b # None /\ N > 1
    /\ heap[ret.out[1].buf][Out + 1] # 0

\* ------------------------------------------------------- backward claims
AccBufs == {a.buf : a \in {gW, gV1, gV2, gb}} \ {0}

AccumulatorsAre(k) ==
    /\ heap[gW.buf] = k.W
    /\ gV1 # None => heap[gV1.buf] = k.V1
    /\ gV2 # None => heap[gV2.buf] = k.V2
    /\ gb # None => heap[gb.buf] = k.b

GoodGradShape == gy.shape = <<N, Out>>

\* C3: after zero_grads and any backward calls since (each with a grad_y of
\* shape (N, out)), every existing accumulator holds the sum over those calls
\* of the contributions of the gradient rules: gW[j,k,l] is the sum over the
\* calls and n of e1[n,j]*e2[n,k]*grad_y[n,l], and gV1, gV2, gb likewise
C3_GradientsAccumulate ==
    (acc.since = "zero_grads" /\ acc.valid) => AccumulatorsAre(acc)

C3_Witness ==
    /\ acc.since = "zero_grads" /\ acc.valid
    /\ calls > 1 /\ ret.op = "backward_cpu" /\ ret.status = "ok" /\ gb # None
    /\ N > 1 /\ acc.W[1] > ret.args[1].data[1] * ret.args[2].data[1] * ret.args[3].data[1]
    /\ acc.b[Out] # 0

\* C4: every existing accumulator is all zeros right after construction, so
\* the backward calls on a layer never reset leave what they leave after
\* zero_grads: the sum of their contributions
C4_FreshAccumulatorsZero ==
    (acc.since = "__init__" /\ acc.valid) => AccumulatorsAre(acc)

ExpectedGe1(n, j) ==
    SumTo([k \in 1..D2 |->
             SumTo([l \in 1..Out |-> e2At(n, k - 1) * WAt(j, k - 1, l - 1) * gyAt(n, l - 1)],
                   Out)], D2)
    + (IF b = None THEN 0
       ELSE SumTo([l \in 1..Out |-> gyAt(n, l - 1) * V1At(j, l - 1)], Out))

ExpectedGe2(n, k) ==
    SumTo([j \in 1..D1 |->
             SumTo([l \in 1..Out |-> e1At(n, j - 1) * WAt(j - 1, k, l - 1) * gyAt(n, l - 1)],
                   Out)], D1)
    + (IF b = None THEN 0
       ELSE SumTo([l \in 1..Out |-> gyAt(n, l - 1) * V2At(k, l - 1)], Out))

\* C5: backward, given a grad_y of shape (N, out), returns
\* grad_e1[n,j] = sum_k sum_l e2[n,k]*W[j,k,l]*grad_y[n,l] (+ sum_l
\* grad_y[n,l]*V1[j,l]) and grad_e2[n,k] = sum_j sum_l e1[n,j]*W[j,k,l]*
\* grad_y[n,l] (+ sum_l grad_y[n,l]*V2[k,l]), whatever calls came before; it
\* returns whenever the layer has the accumulators of its bias terms
C5_InputGradientsFresh ==
    (ret.op = "backward_cpu" /\ GoodGradShape) =>
        /\ (b = None \/ gb # None) => ret.status = "ok"
        /\ ret.status = "ok" =>
              /\ ret.out[1].shape = <<N, D1>>
              /\ ret.out[2].shape = <<N, D2>>
              /\ \A n \in 0..(N - 1) :
                    /\ \A j \in 0..(D1 - 1) :
                          heap[ret.out[1].buf][n * D1 + j + 1] = ExpectedGe1(n, j)
                    /\ \A k \in 0..(D2 - 1) :
                          heap[ret.out[2].buf][n * D2 + k + 1] = ExpectedGe2(n, k)

C5_Witness ==
    /\ ret.op = "backward_cpu" /\ ret.status = "ok" /\ GoodGradShape
    /\ calls > 1 /\ acc.since = "__init__" /\ b # None /\ N > 1
    /\ heap[ret.out[1].buf][D1 + 1] # 0
    /\ heap[ret.out[2].buf][D2 + 1] # heap[ret.out[1].buf][D1 + 1]

\* C7: backward with a grad_y whose shape is not (N, out) fails, and updates
\* no accumulator
C7_BadGradShapeFails ==
    [][(ret'.op = "backward_cpu" /\ calls' = calls + 1
        /\ gy'.shape # <<x'[1].shape[1], Out>>) =>
          /\ ret'.status = "error"
          /\ \A i \in AccBufs : heap'[i] = heap[i]]_vars

\* C8: a backward call that fails leaves gW, gV1, gV2 and gb as they were
C8_BackwardAllOrNothing ==
    [][(ret'.op = "backward_cpu" /\ ret'.status = "error" /\ calls' = calls + 1) =>
          \A i \in AccBufs : heap'[i] = heap[i]]_vars

\* ---------------------------------------------------------- device claim
\* C10: whatever the order in which the work items of each kernel run, the
\* stages being sequenced, the pass returns what it returns with the work
\* items run in index order
C10_AnyOrderSameOutput ==
    (ret.op = "forward_gpu" /\ gpu.pc = "idle") =>
        LET r == forward_gpu(heap, x, 0)
        IN  /\ ret.status = r.status
            /\ r.status = "ok" =>
                  View(heap, ret.out[1]) = View(r.heap, r.out[1])

C10_Witness ==
    /\ ret.op = "forward_gpu" /\ gpu.pc = "idle" /\ ret.status = "ok"
    /\ b # None /\ N > 1
    /\ heap[ret.out[1].buf][Out + 1] # 0
    /\ heap[b.buf][1] # 0

====
